---- MODULE Spec2Model ----
(***************************************************************************)
(* Model of the two conversation watchers of the repository:               *)
(*   - src/extract_msg.ts    : watchConversations, tails *.jsonl log files *)
(*   - src/extract_cursor.mjs: watchCursorConversations, polls a key-value *)
(*                             store (table cursorDiskKV)                  *)
(* Text is a sequence of UTF-16 code units (naturals).  A file is a        *)
(* sequence of bytes; a byte is either the newline NL or one half of the   *)
(* serialisation of a line (see Bytes / JSONparse).                        *)
(* Spec runs either watcher with every I/O fault, SpecNoFault the log-file *)
(* watcher without faults, SpecKv the key-value watcher alone, SpecNorm    *)
(* the normaliser of extractAllMessages on one parsed record.              *)
(***************************************************************************)
EXTENDS Naturals, Sequences, FiniteSets, TLC

(* ------------------------------ bounds -------------------------------- *)
\* lines the writers append to the log files during the run, in total
MaxLines == 2
\* headers added to the key-value store during the run, in total
MaxHeaders == 2
\* items in the content of a record handed to the normaliser
MaxItems == 2

(* --------------------------- text helpers ----------------------------- *)
\* String.prototype.trim: the code units ECMAScript treats as white space
IsWhite(c) ==
  c \in ({9, 10, 11, 12, 13, 32, 160, 5760, 8232, 8233, 8239, 8287, 12288, 65279}
         \cup (8192..8202))

RECURSIVE TrimStart(_)
TrimStart(s) ==
  IF s = <<>> THEN <<>>
  ELSE IF IsWhite(Head(s)) THEN TrimStart(Tail(s)) ELSE s

RECURSIVE TrimEnd(_)
TrimEnd(s) ==
  IF s = <<>> THEN <<>>
  ELSE IF IsWhite(s[Len(s)]) THEN TrimEnd(SubSeq(s, 1, Len(s) - 1)) ELSE s

trim(s) == TrimEnd(TrimStart(s))

\* String.prototype.startsWith
startsWith(s, p) == Len(p) <= Len(s) /\ SubSeq(s, 1, Len(p)) = p

\* String.prototype.toLowerCase on the ASCII range
LowerUnit(c) == IF c >= 65 /\ c <= 90 THEN c + 32 ELSE c
toLowerCase(s) == [i \in 1..Len(s) |-> LowerUnit(s[i])]

\* String.prototype.includes
includes(s, p) ==
  \E i \in 0..(Len(s) - Len(p)) : SubSeq(s, i + 1, i + Len(p)) = p

\* the order Array.prototype.sort() uses by default: code units, then length
RECURSIVE LexLess(_, _)
LexLess(a, b) ==
  IF b = <<>> THEN FALSE
  ELSE IF a = <<>> THEN TRUE
  ELSE IF Head(a) < Head(b) THEN TRUE
  ELSE IF Head(a) > Head(b) THEN FALSE
  ELSE LexLess(Tail(a), Tail(b))

\* insertion of one key into a sorted sequence of keys
RECURSIVE Insert(_, _)
Insert(x, s) ==
  IF s = <<>> THEN <<x>>
  ELSE IF LexLess(Head(s), x) THEN <<Head(s)>> \o Insert(x, Tail(s))
  ELSE <<x>> \o s

\* a sort that leaves the keys in insertion order
KeepOrder(s) == s

\* Array.from(convFiles.keys()).sort()
RECURSIVE SortKeys(_)
SortKeys(s) == IF s = <<>> THEN <<>> ELSE Insert(Head(s), SortKeys(Tail(s)))

\* the sentinel prefixes "<" and "This may or may not"
SentinelTag == <<60>>
SentinelNote ==
  <<84, 104, 105, 115, 32, 109, 97, 121, 32, 111, 114, 32, 109, 97, 121, 32, 110, 111, 116>>

(* ------------------------- log-file records --------------------------- *)
\* the kinds of line a writer appends to a log file
LineKinds == {"hello", "multi"}

\* one element of message.content
TextItem(t) == [obj |-> TRUE, type |-> "text", tk |-> "str", text |-> t]

\* the value JSON.parse returns for a complete line of each kind
\*   json: "object" | "null" | "invalid" (JSON.parse throws)
\*   uuid, timestamp: "" when the field is absent
\*   ck: "array" | "undef" | "string" | "noniter" (shape of message.content)
Parsed(k) ==
  CASE k = "hello" ->
         \* {"type":"user","message":{"content":[{"type":"text","text":"hello"}]}}
         [json |-> "object", agentId |-> FALSE, type |-> "user", hasMessage |-> TRUE,
          ck |-> "array", content |-> <<TextItem(<<104, 101, 108, 108, 111>>)>>,
          uuid |-> "", timestamp |-> ""]
    [] k = "multi" ->
         \* assistant record with uuid "u2" and the text items " a ", " \t", "<b"
         [json |-> "object", agentId |-> FALSE, type |-> "assistant", hasMessage |-> TRUE,
          ck |-> "array",
          content |-> <<TextItem(<<32, 97, 32>>), TextItem(<<32, 9>>),
                        TextItem(<<60, 98>>)>>,
          uuid |-> "u2", timestamp |-> "t2"]
    [] OTHER ->
         \* JSON.parse throws
         [json |-> "invalid", agentId |-> FALSE, type |-> "other", hasMessage |-> FALSE,
          ck |-> "undef", content |-> <<>>, uuid |-> "", timestamp |-> ""]

\* the value of rec while one of the watchers runs
NoRecord == Parsed("junk")

\* the newline byte, and the bytes of a line of kind k (two halves)
NL == [k |-> "NL", p |-> 0]
Bytes(k) == <<[k |-> k, p |-> 1], [k |-> k, p |-> 2]>>

\* JSON.parse(line): only the complete serialisation of a line parses
JSONparse(line) ==
  IF \E k \in LineKinds : line = Bytes(k)
  THEN Parsed(CHOOSE k \in LineKinds : line = Bytes(k))
  ELSE Parsed("junk")

\* the lines readline yields for a byte stream: split at NL; the bytes after
\* the last NL are yielded at end of stream when there are any
RECURSIVE SplitFrom(_, _)
SplitFrom(bytes, cur) ==
  IF bytes = <<>> THEN (IF cur = <<>> THEN <<>> ELSE <<cur>>)
  ELSE IF Head(bytes) = NL THEN <<cur>> \o SplitFrom(Tail(bytes), <<>>)
  ELSE SplitFrom(Tail(bytes), Append(cur, Head(bytes)))

ReadLines(bytes) == SplitFrom(bytes, <<>>)

(* --------------------------- normaliser ------------------------------- *)
\* item.text?.trim() || "" ; a non-string text makes .trim() throw
ItemThrows(item) == ~item.obj \/ (item.type = "text" /\ item.tk = "num")
ItemText(item) == IF item.tk = "str" THEN trim(item.text) ELSE <<>>

\* a user branch without the sentinel test
KeepsNonEmpty(text) == text # <<>>

\* the user branch keeps a text that is non-empty and starts with no sentinel
UserKeeps(text) ==
  /\ text # <<>>
  /\ ~startsWith(text, SentinelTag)
  /\ ~startsWith(text, SentinelNote)

\* the assistant branch keeps every non-empty text
AssistantKeeps(text) == text # <<>>

Keeps(role, text) == IF role = "user" THEN UserKeeps(text) ELSE AssistantKeeps(text)

\* message id: data.uuid || ""
MessageId(data) == data.uuid

\* the loop over message.content; a throw ends the line, what was pushed stays
RECURSIVE ItemMessages(_, _)
ItemMessages(data, items) ==
  IF items = <<>> THEN <<>>
  ELSE IF ItemThrows(Head(items)) THEN <<>>
  ELSE IF Head(items).type = "text" /\ Keeps(data.type, ItemText(Head(items)))
       THEN <<[type |-> data.type, text |-> ItemText(Head(items)),
               timestamp |-> data.timestamp, id |-> MessageId(data)]>>
            \o ItemMessages(data, Tail(items))
       ELSE ItemMessages(data, Tail(items))

\* the body of the inner try for one parsed value: the agentId test and the
\* two branches on data.type
RecordMessages(data) ==
  IF data.json # "object" THEN <<>>
  ELSE IF data.agentId THEN <<>>
  ELSE IF data.type \in {"user", "assistant"} /\ data.hasMessage
       THEN (IF data.ck = "array" THEN ItemMessages(data, data.content) ELSE <<>>)
       ELSE <<>>

\* the body of the for-await loop for one line
LineMessages(line) == RecordMessages(JSONparse(line))

RECURSIVE Flatten(_)
Flatten(ss) == IF ss = <<>> THEN <<>> ELSE Head(ss) \o Flatten(Tail(ss))

\* extractAllMessages(filePath, lastPos): the stream starts at byte lastPos;
\* upto is the number of lines delivered before the stream errors (all of them
\* when the read succeeds)
extractAllMessages(content, lastPos, upto) ==
  LET lines == ReadLines(SubSeq(content, lastPos + 1, Len(content)))
      n == IF upto < Len(lines) THEN upto ELSE Len(lines)
  IN Flatten([i \in 1..n |-> LineMessages(lines[i])])

(* ----------------------- log-file watcher state ----------------------- *)
\* the *.jsonl files under the projects directory, in readdir order, and the
\* basename of the directory each one lies in ("b" and "Ab")
Files == {"f1", "f2"}
WalkOrder == <<"f1", "f2">>
Parent(f) == IF f = "f1" THEN <<98>> ELSE <<65, 98>>

\* the project argument on the command line: none, or "A"
Filters == {<<>>, <<65>>}

VARIABLES
  prog,           \* which program runs: "msg" or "cursor"
  fs,             \* file -> bytes
  present,        \* the files that exist
  wbuf,           \* file -> bytes of the line its writer has not written yet
  nlines,         \* lines the writers have started
  projectFilter,  \* command-line filter, <<>> when absent
  pc,             \* "sleep" | "scan" | "read" | "emit" | "stopped" | "done"
  todo,           \* the (project, file) pairs of this tick still to visit
  filePositions,  \* Map path -> byte offset
  seenResponses,  \* Map path -> Set of message ids
  initialLoad,
  buf,            \* result of the extractAllMessages call being awaited
  readEnd,        \* byte offset the awaited read reached
  eof,            \* the awaited read reached the end of the stream
  out,            \* every message handed to the emitter, in order
  tickOut,        \* the emissions of the current tick
  found,          \* the units first discovered in the current tick
  base,           \* unit -> its size when it was discovered
  notices,        \* how often the waiting notice was printed
  stoppedAt,      \* the pc at which the interrupt stopped the process
  headers,        \* store: conversation id -> fullConversationHeadersOnly
  bubbles,        \* store: bubble id -> value of the row 'bubbleId:<id>'
  nheaders,       \* headers added to the store so far
  seenBubbles,    \* Set of bubble ids
  lastCheck,
  dbOpen,         \* a Database opened by the watcher is not closed yet
  lockFail,       \* the bubble lookup of the latest header threw (store locked)
  rec,            \* the record handed to the normaliser
  cands           \* the candidate messages the normaliser returned for rec

msgVars == <<fs, present, wbuf, nlines, projectFilter, pc, todo, filePositions,
             seenResponses, initialLoad, buf, readEnd, eof, out, tickOut, found, base,
             notices, stoppedAt>>
kvVars == <<headers, bubbles, nheaders, seenBubbles, lastCheck, dbOpen, lockFail>>
normVars == <<rec, cands>>

\* convFiles.get(parent).push(fullPath), creating the entry on first use
RECURSIVE AddFile(_, _)
AddFile(map, f) ==
  IF map = <<>> THEN <<[project |-> Parent(f), files |-> <<f>>]>>
  ELSE IF Head(map).project = Parent(f)
       THEN <<[project |-> Parent(f), files |-> Append(Head(map).files, f)]>> \o Tail(map)
       ELSE <<Head(map)>> \o AddFile(Tail(map), f)

\* a filter test that lets every label through
NeverSkips(filter, label) == FALSE

\* the projectFilter test of walkDir
FilterSkips(filter, label) ==
  filter # <<>> /\ ~includes(toLowerCase(label), toLowerCase(filter))

\* walkDir: unread holds the files the walk does not reach because readdirSync
\* or statSync threw before them (the catch of walkDir ends the loop over that
\* directory); each file lies in a directory of its own, so a throw in the
\* projects directory, in a project directory or between two of them can
\* leave out any of the files
RECURSIVE Walk(_, _, _, _, _)
Walk(order, exist, filter, map, unread) ==
  IF order = <<>> THEN map
  ELSE IF \/ Head(order) \notin exist
          \/ Head(order) \in unread
          \/ FilterSkips(filter, Parent(Head(order)))
       THEN Walk(Tail(order), exist, filter, map, unread)
       ELSE Walk(Tail(order), exist, filter, AddFile(map, Head(order)), unread)

\* findConversationFiles: Map parent -> paths, in insertion order
findConversationFiles(exist, filter, unread) ==
  Walk(WalkOrder, exist, filter, <<>>, unread)

MapKeys(map) == [i \in 1..Len(map) |-> map[i].project]
MapGet(map, key) == (CHOOSE i \in 1..Len(map) : map[i].project = key)

\* the order of the two nested loops: sorted projects, each one's files
TickOrder(map) ==
  LET projects == SortKeys(MapKeys(map)) IN
  Flatten([i \in 1..Len(projects) |->
            LET files == map[MapGet(map, projects[i])].files IN
            [j \in 1..Len(files) |-> [project |-> projects[i], file |-> files[j]]]])

\* a loop that forgets to consult the seen-set
EveryMessage(messages, seen) == messages

\* the dedup loop: the messages of a batch whose id is not yet in seen
RECURSIVE NewMessages(_, _)
NewMessages(messages, seen) ==
  IF messages = <<>> THEN <<>>
  ELSE IF Head(messages).id \in seen THEN NewMessages(Tail(messages), seen)
  ELSE <<Head(messages)>> \o NewMessages(Tail(messages), seen \cup {Head(messages).id})

Ids(messages) == {messages[i].id : i \in 1..Len(messages)}

Emitted(messages, f, project) ==
  [i \in 1..Len(messages) |->
    [unit |-> f, label |-> project, id |-> messages[i].id,
     type |-> messages[i].type, text |-> messages[i].text]]

\* byte offset reached after the first n lines of a stream that starts at pos
RECURSIVE Consumed(_, _, _)
Consumed(lines, n, avail) ==
  IF n = 0 \/ lines = <<>> THEN 0
  ELSE LET c == IF Len(Head(lines)) + 1 < avail THEN Len(Head(lines)) + 1 ELSE avail
       IN c + Consumed(Tail(lines), n - 1, avail - c)

(* ------------------------- key-value store --------------------------- *)
\* the composerData rows in the order the query returns them, and their names
\* ("b" and "Ab")
Convs == {"c1", "c2"}
RowOrder == <<"c1", "c2">>
ConvName(c) == IF c = "c1" THEN <<98>> ELSE <<65, 98>>

BubbleIds == {"b1", "b2"}

\* an entry of fullConversationHeadersOnly: null, or {bubbleId, type}
NullHeader == [nul |-> TRUE, bubbleId |-> "", type |-> 0]
Header(b, t) == [nul |-> FALSE, bubbleId |-> b, type |-> t]
HeaderValues == {Header("b1", 1), Header("b2", 2), NullHeader}

\* the value of a bubble row: none, a JSON object with a text, or no JSON
NoRow == [k |-> "none", text |-> <<>>]
TextBody(t) == [k |-> "text", text |-> t]
BadBody == [k |-> "unparsable", text |-> <<>>]
\* the texts "hi " and " "
BodyValues == {TextBody(<<104, 105, 32>>), TextBody(<<32>>), BadBody}

\* the state both programs start in
Start ==
  /\ present = {}
  /\ fs = [f \in Files |-> <<>>]
  /\ wbuf = [f \in Files |-> <<>>]
  /\ nlines = 0
  /\ projectFilter \in Filters
  /\ pc = "sleep"
  /\ todo = <<>>
  /\ filePositions = <<>>
  /\ seenResponses = <<>>
  /\ initialLoad = TRUE
  /\ buf = <<>>
  /\ readEnd = 0
  /\ eof = FALSE
  /\ out = <<>>
  /\ tickOut = <<>>
  /\ found = {}
  /\ base = <<>>
  /\ notices = 0
  /\ stoppedAt = "none"
  /\ headers = [c \in Convs |-> <<>>]
  /\ bubbles = [b \in BubbleIds |-> NoRow]
  /\ nheaders = 0
  /\ seenBubbles = {}
  /\ lastCheck = 0
  /\ dbOpen = FALSE
  /\ lockFail = FALSE
  /\ cands = <<>>

(* ---------------------- log-file watcher actions ---------------------- *)
\* writers of the log files (other processes): a writer appends a line of any
\* kind, whole (n = 3) or only its first half (n = 1) and the rest later
WriteBegin(f, k, n) ==
  /\ prog = "msg" /\ pc # "stopped"
  /\ f \in present /\ wbuf[f] = <<>> /\ nlines < MaxLines
  /\ LET all == Bytes(k) \o <<NL>> IN
     /\ fs' = [fs EXCEPT ![f] = @ \o SubSeq(all, 1, n)]
     /\ wbuf' = [wbuf EXCEPT ![f] = SubSeq(all, n + 1, Len(all))]
  /\ nlines' = nlines + 1
  /\ UNCHANGED <<kvVars, normVars>>
  /\ UNCHANGED <<prog, present, projectFilter, pc, todo, filePositions, seenResponses,
                 initialLoad, buf, readEnd, eof, out, tickOut, found, base, notices, stoppedAt>>

WriteRest(f) ==
  /\ prog = "msg" /\ pc # "stopped"
  /\ wbuf[f] # <<>>
  /\ fs' = [fs EXCEPT ![f] = @ \o wbuf[f]]
  /\ wbuf' = [wbuf EXCEPT ![f] = <<>>]
  /\ UNCHANGED <<kvVars, normVars>>
  /\ UNCHANGED <<prog, present, nlines, projectFilter, pc, todo, filePositions,
                 seenResponses, initialLoad, buf, readEnd, eof, out, tickOut, found, base,
                 notices, stoppedAt>>

\* a new, empty log file appears
CreateFile(f) ==
  /\ prog = "msg" /\ pc # "stopped"
  /\ f \notin present
  /\ present' = present \cup {f}
  /\ UNCHANGED <<kvVars, normVars>>
  /\ UNCHANGED <<prog, fs, wbuf, nlines, projectFilter, pc, todo, filePositions,
                 seenResponses, initialLoad, buf, readEnd, eof, out, tickOut, found, base,
                 notices, stoppedAt>>

\* top of the while loop: findConversationFiles, the waiting notice, the sort
TickStart(unread) ==
  /\ prog = "msg" /\ pc = "sleep"
  /\ unread \subseteq present
  /\ LET convFiles == findConversationFiles(present, projectFilter, unread) IN
     /\ todo' = TickOrder(convFiles)
     /\ initialLoad' = (initialLoad /\ convFiles # <<>>)
     /\ notices' = IF initialLoad /\ convFiles = <<>> THEN notices + 1 ELSE notices
  /\ pc' = "scan"
  /\ tickOut' = <<>>
  /\ found' = {}
  /\ UNCHANGED <<kvVars, normVars>>
  /\ UNCHANGED <<prog, fs, present, wbuf, nlines, projectFilter, filePositions,
                 seenResponses, buf, readEnd, eof, out, base, stoppedAt>>

\* a cursor that starts at the beginning of the file
StartOfFile(size) == 0

\* the cursor a file gets when it is seen for the first time: stat.size
FirstPosition(size) == size

\* !filePositions.has(filePath): statSync, set, continue
FirstSight(f, statOk) ==
  /\ prog = "msg" /\ pc = "scan"
  /\ todo # <<>> /\ Head(todo).file = f
  /\ f \notin DOMAIN filePositions
  /\ IF statOk
     THEN /\ filePositions' = (f :> FirstPosition(Len(fs[f]))) @@ filePositions
          /\ base' = (f :> Len(fs[f])) @@ base
          /\ found' = found \cup {f}
     ELSE UNCHANGED <<filePositions, base, found>>
  /\ todo' = Tail(todo)
  /\ UNCHANGED <<kvVars, normVars>>
  /\ UNCHANGED <<prog, fs, present, wbuf, nlines, projectFilter, pc, seenResponses,
                 initialLoad, buf, readEnd, eof, out, tickOut, notices, stoppedAt>>

\* await extractAllMessages(filePath, lastPos): the stream is read to its end,
\* or errors after upto lines
Fetch(f, upto) ==
  /\ prog = "msg" /\ pc = "scan"
  /\ todo # <<>> /\ Head(todo).file = f
  /\ f \in DOMAIN filePositions
  /\ LET lastPos == filePositions[f]
         lines == ReadLines(SubSeq(fs[f], lastPos + 1, Len(fs[f])))
     IN /\ upto \in 0..Len(lines)
        /\ buf' = extractAllMessages(fs[f], lastPos, upto)
        /\ readEnd' = lastPos + Consumed(lines, upto, Len(fs[f]) - lastPos)
        /\ eof' = (upto = Len(lines))
  /\ pc' = "read"
  /\ UNCHANGED <<kvVars, normVars>>
  /\ UNCHANGED <<prog, fs, present, wbuf, nlines, projectFilter, todo, filePositions,
                 seenResponses, initialLoad, out, tickOut, found, base, notices,
                 stoppedAt>>

\* a cursor that is dropped when the size cannot be sampled
PositionOrZero(old, size, statOk) == IF statOk THEN size ELSE 0

\* the cursor after the read: stat.size, or the old one when statSync throws
NextPosition(old, size, statOk) == IF statOk THEN size ELSE old

\* after the await: statSync and filePositions.set, or nothing when it throws
SetPosition(f, statOk) ==
  /\ prog = "msg" /\ pc = "read"
  /\ todo # <<>> /\ Head(todo).file = f
  /\ filePositions' = [filePositions EXCEPT ![f] = NextPosition(@, Len(fs[f]), statOk)]
  /\ readEnd' = 0
  /\ eof' = FALSE
  /\ pc' = "emit"
  /\ UNCHANGED <<kvVars, normVars>>
  /\ UNCHANGED <<prog, fs, present, wbuf, nlines, projectFilter, todo, seenResponses,
                 initialLoad, buf, out, tickOut, found, base, notices, stoppedAt>>

\* then the seen-set of the file is created and the batch is deduplicated and
\* emitted, in the same synchronous run
Emit(f) ==
  /\ prog = "msg" /\ pc = "emit"
  /\ todo # <<>> /\ Head(todo).file = f
  /\ LET seen == IF f \in DOMAIN seenResponses THEN seenResponses[f] ELSE {}
         fresh == NewMessages(buf, seen)
         emits == Emitted(fresh, f, Head(todo).project)
     IN /\ seenResponses' = (f :> (seen \cup Ids(fresh))) @@ seenResponses
        /\ initialLoad' = (initialLoad /\ fresh = <<>>)
        /\ out' = out \o emits
        /\ tickOut' = tickOut \o emits
  /\ buf' = <<>>
  /\ todo' = Tail(todo)
  /\ pc' = "scan"
  /\ UNCHANGED <<kvVars, normVars>>
  /\ UNCHANGED <<prog, fs, present, wbuf, nlines, projectFilter, filePositions, readEnd,
                 eof, found, base, notices, stoppedAt>>

\* end of the for loops: await the 100 ms timer
TickEnd ==
  /\ prog = "msg" /\ pc = "scan" /\ todo = <<>>
  /\ pc' = "sleep"
  /\ tickOut' = <<>>
  /\ found' = {}
  /\ UNCHANGED <<kvVars, normVars>>
  /\ UNCHANGED <<prog, fs, present, wbuf, nlines, projectFilter, todo, filePositions,
                 seenResponses, initialLoad, buf, readEnd, eof, out, base, notices, stoppedAt>>

\* a handler that could also run inside the synchronous part of a tick
EveryPoint == {"sleep", "read", "emit", "scan"}

\* the points at which the event loop can run the SIGINT handler: every await
AwaitPoints == {"sleep", "read"}

\* process.on("SIGINT"): process.exit(0); the maps of the process are gone,
\* buf keeps the batch that was fetched and not yet applied
Sigint ==
  /\ prog = "msg" /\ pc \in AwaitPoints
  /\ stoppedAt' = pc
  /\ pc' = "stopped"
  /\ filePositions' = <<>>
  /\ seenResponses' = <<>>
  /\ todo' = <<>>
  /\ tickOut' = <<>>
  /\ found' = {}
  /\ readEnd' = 0
  /\ eof' = FALSE
  /\ UNCHANGED <<kvVars, normVars>>
  /\ UNCHANGED <<prog, fs, present, wbuf, nlines, projectFilter, initialLoad, buf, out,
                 base, notices>>

(* ---------------------- key-value watcher actions --------------------- *)
\* the IDE (another process) appends a header to a conversation
AddHeader(c, h) ==
  /\ prog = "cursor" /\ pc # "stopped"
  /\ nheaders < MaxHeaders
  /\ headers' = [headers EXCEPT ![c] = Append(@, h)]
  /\ nheaders' = nheaders + 1
  /\ UNCHANGED <<bubbles, seenBubbles, lastCheck, dbOpen, lockFail>>
  /\ UNCHANGED <<prog, msgVars, normVars>>

\* the IDE stores the body of a bubble
PutBubble(b, body) ==
  /\ prog = "cursor" /\ pc # "stopped"
  /\ bubbles[b] = NoRow
  /\ bubbles' = [bubbles EXCEPT ![b] = body]
  /\ UNCHANGED <<headers, nheaders, seenBubbles, lastCheck, dbOpen, lockFail>>
  /\ UNCHANGED <<prog, msgVars, normVars>>

\* loadConversations(db): the rows with at least one header, in row order
RECURSIVE LoadRows(_, _)
LoadRows(order, hs) ==
  IF order = <<>> THEN <<>>
  ELSE IF Len(hs[Head(order)]) > 0
       THEN <<[id |-> Head(order), name |-> ConvName(Head(order)),
               headers |-> hs[Head(order)]]>> \o LoadRows(Tail(order), hs)
       ELSE LoadRows(Tail(order), hs)

loadConversations(hs, queryOk) == IF queryOk THEN LoadRows(RowOrder, hs) ELSE <<>>

\* the two nested loops: each conversation the filter keeps, each header
KvOrder(conversations, filter) ==
  Flatten([i \in 1..Len(conversations) |->
            IF FilterSkips(filter, conversations[i].name) THEN <<>>
            ELSE [j \in 1..Len(conversations[i].headers) |->
                   [conv |-> conversations[i].id, name |-> conversations[i].name,
                    header |-> conversations[i].headers[j]]]])

Units(order) == {order[i].conv : i \in 1..Len(order)}

\* the notice counter: 0, 1, or 2 for "more than once"
CountNotice(n) == IF n = 0 THEN 1 ELSE 2

\* top of the while loop: new Database throws (store locked) ...
KvOpenFail ==
  /\ prog = "cursor" /\ pc = "sleep"
  /\ UNCHANGED <<prog, msgVars, kvVars, normVars>>

\* ... or it opens, and loadConversations, the notice and lastCheck follow
KvTickStart(queryOk) ==
  /\ prog = "cursor" /\ pc = "sleep"
  /\ LET conversations == loadConversations(headers, queryOk)
         order == KvOrder(conversations, projectFilter)
         fresh == Units(order) \ DOMAIN base
     IN /\ notices' = IF Len(conversations) = 0 /\ lastCheck = 0
                      THEN CountNotice(notices) ELSE notices
        /\ lastCheck' = Len(conversations)
        /\ todo' = order
        /\ found' = fresh
        /\ base' = [c \in fresh |-> Len(headers[c])] @@ base
  /\ dbOpen' = TRUE
  /\ lockFail' = FALSE
  /\ pc' = "scan"
  /\ tickOut' = <<>>
  /\ UNCHANGED <<headers, bubbles, nheaders, seenBubbles>>
  /\ UNCHANGED normVars
  /\ UNCHANGED <<prog, fs, present, wbuf, nlines, projectFilter, filePositions,
                 seenResponses, initialLoad, buf, readEnd, eof, out, stoppedAt>>

\* a test that only wants the text to be non-empty before trimming
RawNonEmpty(text) == text # <<>>

\* text.trim() is truthy
BubbleHasText(text) == trim(text) # <<>>

\* headerType === 1 ? user : assistant
Role(t) == IF t = 1 THEN "user" ELSE "assistant"

\* what the lookup of one unseen bubble hands to the emitter
BubbleEmits(entry, body, lockOk) ==
  IF lockOk /\ body.k = "text" /\ BubbleHasText(body.text)
  THEN <<[unit |-> entry.conv, label |-> entry.name, id |-> entry.header.bubbleId,
          type |-> Role(entry.header.type), text |-> body.text]>>
  ELSE <<>>

\* a test that never finds the id in the set
AlwaysUnseen(id, seen) == TRUE

\* !seenBubbles.has(bubbleId)
Unseen(id, seen) == id \notin seen

\* one turn of the header loop; a null header throws out of both loops into
\* the outer catch, which skips db.close()
KvHeader(lockOk) ==
  /\ prog = "cursor" /\ pc = "scan" /\ todo # <<>>
  /\ LET entry == Head(todo) IN
     IF entry.header.nul
     THEN /\ todo' = <<>>
          /\ pc' = "sleep"
          /\ tickOut' = <<>>
          /\ found' = {}
          /\ lockFail' = FALSE
          /\ UNCHANGED <<seenBubbles, out>>
     ELSE /\ todo' = Tail(todo)
          /\ pc' = "scan"
          /\ UNCHANGED found
          /\ IF Unseen(entry.header.bubbleId, seenBubbles)
             THEN LET emits == BubbleEmits(entry, bubbles[entry.header.bubbleId], lockOk)
                  IN /\ seenBubbles' = seenBubbles \cup {entry.header.bubbleId}
                     /\ lockFail' = ~lockOk
                     /\ out' = out \o emits
                     /\ tickOut' = tickOut \o emits
             ELSE /\ lockFail' = FALSE
                  /\ UNCHANGED <<seenBubbles, out, tickOut>>
  /\ UNCHANGED <<headers, bubbles, nheaders, lastCheck, dbOpen>>
  /\ UNCHANGED normVars
  /\ UNCHANGED <<prog, fs, present, wbuf, nlines, projectFilter, filePositions,
                 seenResponses, initialLoad, buf, readEnd, eof, base, notices, stoppedAt>>

\* end of the loops: db.close(), then await the 500 ms timer
KvTickEnd ==
  /\ prog = "cursor" /\ pc = "scan" /\ todo = <<>>
  /\ dbOpen' = FALSE
  /\ lockFail' = FALSE
  /\ pc' = "sleep"
  /\ tickOut' = <<>>
  /\ found' = {}
  /\ UNCHANGED <<headers, bubbles, nheaders, seenBubbles, lastCheck>>
  /\ UNCHANGED normVars
  /\ UNCHANGED <<prog, fs, present, wbuf, nlines, projectFilter, todo, filePositions,
                 seenResponses, initialLoad, buf, readEnd, eof, out, base, notices, stoppedAt>>

\* process.on('SIGINT'): the tick has no await, the handler runs at the timer;
\* the set of the process is gone
KvSigint ==
  /\ prog = "cursor" /\ pc = "sleep"
  /\ stoppedAt' = pc
  /\ pc' = "stopped"
  /\ seenBubbles' = {}
  /\ UNCHANGED <<headers, bubbles, nheaders, lastCheck, dbOpen, lockFail>>
  /\ UNCHANGED normVars
  /\ UNCHANGED <<prog, fs, present, wbuf, nlines, projectFilter, todo, filePositions,
                 seenResponses, initialLoad, buf, readEnd, eof, out, tickOut, found, base,
                 notices>>

MsgNext ==
  \/ \E f \in Files, k \in LineKinds, n \in {1, 3} : WriteBegin(f, k, n)
  \/ \E f \in Files : WriteRest(f)
  \/ \E f \in Files : CreateFile(f)
  \/ \E unread \in SUBSET Files : TickStart(unread)
  \/ \E f \in Files, statOk \in BOOLEAN : FirstSight(f, statOk)
  \/ \E f \in Files, upto \in 0..(2 * MaxLines + 2) : Fetch(f, upto)
  \/ \E f \in Files, statOk \in BOOLEAN : SetPosition(f, statOk)
  \/ \E f \in Files : Emit(f)
  \/ TickEnd
  \/ Sigint

vars == <<prog, msgVars, kvVars, normVars>>

KvNext ==
  \/ \E c \in Convs, h \in HeaderValues : AddHeader(c, h)
  \/ \E b \in BubbleIds, body \in BodyValues : PutBubble(b, body)
  \/ KvOpenFail
  \/ \E queryOk \in BOOLEAN : KvTickStart(queryOk)
  \/ \E lockOk \in BOOLEAN : KvHeader(lockOk)
  \/ KvTickEnd
  \/ KvSigint

Init == Start /\ prog \in {"msg", "cursor"} /\ rec = NoRecord
Next == MsgNext \/ KvNext
Spec == Init /\ [][Next]_vars

\* the key-value watcher alone
KvInit == Start /\ prog = "cursor" /\ rec = NoRecord
SpecKv == KvInit /\ [][KvNext]_vars

\* the log-file watcher on a file system on which no walk, read or stat fails
MsgInit == Start /\ prog = "msg" /\ rec = NoRecord
MsgNextNoFault ==
  \/ \E f \in Files, k \in LineKinds, n \in {1, 3} : WriteBegin(f, k, n)
  \/ \E f \in Files : WriteRest(f)
  \/ \E f \in Files : CreateFile(f)
  \/ TickStart({})
  \/ \E f \in Files : FirstSight(f, TRUE)
  \/ \E f \in Files, upto \in 0..(2 * MaxLines + 2) : Fetch(f, upto) /\ eof'
  \/ \E f \in Files : SetPosition(f, TRUE)
  \/ \E f \in Files : Emit(f)
  \/ TickEnd
  \/ Sigint
SpecNoFault == MsgInit /\ [][MsgNextNoFault]_vars


(* ----------------------- the normaliser alone ------------------------- *)
\* the texts "", " \t", " hi ", " <b", "This may or may not!", "this may or may not"
Texts ==
  {<<>>, <<32, 9>>, <<32, 104, 105, 32>>, <<32, 60, 98>>, Append(SentinelNote, 33),
   toLowerCase(SentinelNote)}

\* elements of message.content: the text items over Texts, {"type":"text"},
\* {"type":"text","text":null}, {"type":"text","text":5},
\* {"type":"tool_use","text":"hi"} and null
\*   tk: "str" | "undef" (no text) | "null" | "num" (any other value)
NoTextItem == [obj |-> TRUE, type |-> "text", tk |-> "undef", text |-> <<>>]
NullTextItem == [obj |-> TRUE, type |-> "text", tk |-> "null", text |-> <<>>]
NumTextItem == [obj |-> TRUE, type |-> "text", tk |-> "num", text |-> <<>>]
ToolItem == [obj |-> TRUE, type |-> "tool_use", tk |-> "str", text |-> <<104, 105>>]
NullItem == [obj |-> FALSE, type |-> "null", tk |-> "undef", text |-> <<>>]
Items ==
  {TextItem(t) : t \in Texts}
    \cup {NoTextItem, NullTextItem, NumTextItem, ToolItem, NullItem}

Contents == UNION {[1..n -> Items] : n \in 0..MaxItems}

\* the values JSON.parse hands to the normaliser: objects with an array content,
\* with or without agentId, of type user, assistant or summary ...
ArrayRecords ==
  {[json |-> "object", agentId |-> a, type |-> t, hasMessage |-> TRUE, ck |-> "array",
    content |-> c, uuid |-> "u1", timestamp |-> "t1"] :
     a \in BOOLEAN, t \in {"user", "assistant", "summary"}, c \in Contents}

\* ... the value null, and objects without message, without content, with a
\* string content and with a number as content
OddRecords ==
  {[json |-> j, agentId |-> FALSE, type |-> t, hasMessage |-> h, ck |-> k,
    content |-> <<>>, uuid |-> "u1", timestamp |-> "t1"] :
     j \in {"object", "null"}, t \in {"user", "assistant"}, h \in BOOLEAN,
     k \in {"undef", "string", "noniter"}}

Records == ArrayRecords \cup OddRecords

NormInit == Start /\ prog = "norm" /\ rec \in Records

\* one pass of the inner try of extractAllMessages over the parsed value
Normalise ==
  /\ prog = "norm" /\ pc = "sleep"
  /\ cands' = RecordMessages(rec)
  /\ pc' = "done"
  /\ UNCHANGED <<prog, rec, kvVars>>
  /\ UNCHANGED <<fs, present, wbuf, nlines, projectFilter, todo, filePositions,
                 seenResponses, initialLoad, buf, readEnd, eof, out, tickOut, found, base,
                 notices, stoppedAt>>

NormNext == Normalise
SpecNorm == NormInit /\ [][NormNext]_vars

(* ======================= properties of the watchers ==================== *)
Proj(ms) == [i \in 1..Len(ms) |-> [id |-> ms[i].id, type |-> ms[i].type, text |-> ms[i].text]]
OutOf(seq, u) == Proj(SelectSeq(seq, LAMBDA e : e.unit = u))

RECURSIVE IsSubseq(_, _)
IsSubseq(a, b) ==
  IF a = <<>> THEN TRUE
  ELSE IF b = <<>> THEN FALSE
  ELSE IF Head(a) = Head(b) THEN IsSubseq(Tail(a), Tail(b))
  ELSE IsSubseq(a, Tail(b))

\* the lines of a byte stream that are terminated by a newline
RECURSIVE SplitComplete(_, _)
SplitComplete(bytes, cur) ==
  IF bytes = <<>> THEN <<>>
  ELSE IF Head(bytes) = NL THEN <<cur>> \o SplitComplete(Tail(bytes), <<>>)
  ELSE SplitComplete(Tail(bytes), Append(cur, Head(bytes)))

Tracked == IF prog = "msg" THEN DOMAIN filePositions ELSE {}

\* the messages of everything unit f received after its discovery, in line order
AfterDiscovery(f) ==
  Proj(extractAllMessages(fs[f], base[f], Len(fs[f]) + 1))

\* the message-bearing records among the complete lines unit f received after
\* its discovery: for each such line, the messages it normalises to
RecordsAfterDiscovery(f) ==
  LET lines == SplitComplete(SubSeq(fs[f], base[f] + 1, Len(fs[f])), <<>>)
  IN SelectSeq([i \in 1..Len(lines) |-> Proj(LineMessages(lines[i]))],
               LAMBDA ms : ms # <<>>)

\* the watcher sleeps, its cursor of f is at the end of f, and f ends in a
\* complete line: nothing of f will be read again unless f grows
CaughtUp(f) ==
  /\ prog = "msg" /\ pc = "sleep"
  /\ f \in Tracked
  /\ filePositions[f] = Len(fs[f])
  /\ wbuf[f] = <<>>

\* C1: no message id is handed to the emitter twice for the same unit.
AtMostOnce ==
  \A i, j \in 1..Len(out) :
    i < j => ~(out[i].unit = out[j].unit /\ out[i].id = out[j].id)

\* C1 witness: a tick of the key-value watcher has rescanned, from the start,
\* the headers of a bubble it emitted on an earlier tick, and emitted nothing.
RescanEmitsNothing ==
  /\ prog = "cursor" /\ pc = "scan" /\ todo = <<>> /\ lastCheck > 0
  /\ out # <<>> /\ tickOut = <<>>

\* C2: once the watcher has caught up with a tracked file, the emitter has
\* received every message-bearing record appended since the file got its
\* cursor, each once, in line order.
ExactlyOnceInOrder ==
  \A f \in Files :
    CaughtUp(f) =>
      /\ Len(OutOf(out, f)) = Len(RecordsAfterDiscovery(f))
      /\ \A n \in 1..Len(OutOf(out, f)) :
           \E j \in 1..Len(RecordsAfterDiscovery(f)[n]) :
             RecordsAfterDiscovery(f)[n][j] = OutOf(out, f)[n]

\* C3 (as claimed, both watchers): a unit emits nothing on the tick that
\* discovers it, and its cursor is the size it had.
FirstSightSilent ==
  /\ \A i \in 1..Len(tickOut) : tickOut[i].unit \notin found
  /\ prog = "msg" => \A f \in found : filePositions[f] = base[f]

\* C3 (amended, log-file watcher): a file emits nothing on the tick that
\* discovers it, its cursor is then the size it had, and everything ever
\* emitted for it comes from bytes added after its discovery.
FirstSightSilentMsg ==
  prog = "msg" =>
    /\ \A i \in 1..Len(tickOut) : tickOut[i].unit \notin found
    /\ \A f \in found : filePositions[f] = base[f]
    /\ \A f \in Tracked : f \in DOMAIN base /\ filePositions[f] >= base[f]
    /\ \A f \in Tracked :
         LET after == AfterDiscovery(f)
             mine == OutOf(out, f)
         IN \A i \in 1..Len(mine) : \E j \in 1..Len(after) : after[j] = mine[i]
    /\ \A i \in 1..Len(out) : pc # "stopped" => out[i].unit \in Tracked

\* C3 witness: a file that already held a complete line was discovered in the
\* current tick, in which another file emitted.
DiscoveredWithContent ==
  /\ prog = "msg" /\ tickOut # <<>>
  /\ \E f \in found : base[f] >= 3

\* C4: a tick never moves the cursor into an unterminated line: past its
\* discovery size, the cursor of a file rests only at the end of a line.
PartialLineLeftUnread ==
  \A f \in Tracked :
    filePositions[f] > base[f] => fs[f][filePositions[f]] = NL

\* C5: while the process runs, the cursor of a file never decreases and never
\* becomes absent.
CursorMonotone ==
  [][(prog = "msg" /\ pc' # "stopped") =>
       \A f \in DOMAIN filePositions :
         /\ f \in DOMAIN filePositions'
         /\ filePositions'[f] >= filePositions[f]]_vars

\* C5 witness: a cursor has advanced past the size at discovery, twice.
CursorAdvanced ==
  /\ prog = "msg"
  /\ \E f \in Tracked : filePositions[f] >= base[f] + 6

\* the emissions of one tick, by unit label
LabelsAscend(seq) ==
  \A i, j \in 1..Len(seq) : i < j => ~LexLess(seq[j].label, seq[i].label)

RowIndex(c) == CHOOSE i \in 1..Len(RowOrder) : RowOrder[i] = c
RowsAscend(seq) ==
  \A i, j \in 1..Len(seq) : i < j => RowIndex(seq[i].unit) <= RowIndex(seq[j].unit)

HeaderIndex(c, b) ==
  CHOOSE i \in 1..Len(headers[c]) :
    /\ ~headers[c][i].nul /\ headers[c][i].bubbleId = b
    /\ \A k \in 1..(i - 1) : headers[c][k].nul \/ headers[c][k].bubbleId # b
HeadersAscend(seq) ==
  \A i, j \in 1..Len(seq) :
    (i < j /\ seq[i].unit = seq[j].unit) =>
      HeaderIndex(seq[i].unit, seq[i].id) < HeaderIndex(seq[j].unit, seq[j].id)

LinesAscend(seq) ==
  \A f \in Files : f \in DOMAIN base => IsSubseq(OutOf(seq, f), AfterDiscovery(f))

\* C6 (as claimed, both watchers): the emissions of a tick are in ascending
\* order of unit label, each unit's in the order of its source.
TickInLabelOrder ==
  /\ LabelsAscend(tickOut)
  /\ prog = "msg" => LinesAscend(tickOut)
  /\ prog = "cursor" => HeadersAscend(tickOut)

\* C6 (amended): the log-file watcher emits a tick's messages in ascending
\* order of project label, each file's in line order; the key-value watcher
\* emits them in the row order of the store, each conversation's in header
\* order.
TickInSourceOrder ==
  /\ prog = "msg" => LabelsAscend(tickOut) /\ LinesAscend(tickOut)
  /\ prog = "cursor" => RowsAscend(tickOut) /\ HeadersAscend(tickOut)

\* C6 witness: two log files of different projects emitted in the same tick.
TwoUnitsInOneTick ==
  /\ prog = "msg"
  /\ \E i, j \in 1..Len(tickOut) : tickOut[i].label # tickOut[j].label

\* the message of the record {"type":"user","message":{"content":[{"type":
\* "text","text":"hello"}]}}
HelloMessage ==
  [type |-> "user", text |-> <<104, 101, 108, 108, 111>>, timestamp |-> "", id |-> ""]

\* C7: whenever the read of a tracked file returns exactly the hello record,
\* that tick hands exactly one message, user "hello", to the emitter.
HelloOnEveryGrowth ==
  [][(prog = "msg" /\ pc = "emit" /\ pc' = "scan" /\ buf = <<HelloMessage>>)
       => /\ Len(out') = Len(out) + 1
          /\ out'[Len(out')].type = "user"
          /\ out'[Len(out')].text = HelloMessage.text]_vars

\* C8: no text handed to the emitter is empty or white space only, and the
\* texts of the log-file watcher are trimmed.
TextNeverBlank ==
  \A i \in 1..Len(out) :
    /\ trim(out[i].text) # <<>>
    /\ prog = "msg" => trim(out[i].text) = out[i].text

\* C8 witness: the key-value watcher has consumed a bubble whose text is white
\* space only, and has emitted another one.
BlankBubbleConsumed ==
  /\ prog = "cursor" /\ out # <<>>
  /\ \E b \in seenBubbles :
       /\ bubbles[b].k = "text" /\ bubbles[b].text # <<>> /\ trim(bubbles[b].text) = <<>>
       /\ \A i \in 1..Len(out) : out[i].id # b

\* C9 (as claimed): the process stops only at the inter-tick sleep.
StopsOnlyAtSleep == pc = "stopped" => stoppedAt = "sleep"

\* C9 (amended): the key-value watcher stops only at the inter-tick sleep; the
\* log-file watcher stops at an await, which is the inter-tick sleep or the
\* pending read of a file, never between the cursor update of a unit and the
\* end of that unit's emissions.
StopsOnlyAtAwait ==
  pc = "stopped" =>
    /\ prog = "cursor" => stoppedAt = "sleep"
    /\ prog = "msg" => stoppedAt \in {"sleep", "read"}

\* C9 witness: the log-file watcher was stopped in the middle of a tick, with
\* a fetched batch it has neither emitted nor recorded.
StoppedMidTick ==
  /\ prog = "msg" /\ pc = "stopped" /\ stoppedAt = "read" /\ buf # <<>>

\* C10: when a read reached the end of the stream and the file holds complete
\* lines only, the new cursor does not exceed the byte offset that read
\* reached: no line appended during the read is skipped.
CursorWithinRead ==
  [][(prog = "msg" /\ pc = "read" /\ pc' = "emit" /\ eof
        /\ wbuf[Head(todo).file] = <<>>)
       => filePositions'[Head(todo).file] <= readEnd]_vars

\* the messages of the awaited batch that the dedup loop will still emit
Pending(f) ==
  NewMessages(buf, IF f \in DOMAIN seenResponses THEN seenResponses[f] ELSE {})

\* C11: the cursor of a file is changed only after every new message of the
\* fetched batch has been handed to the emitter: at the moment the cursor
\* changes, no message of the batch is still waiting to be emitted.
CursorAfterEmission ==
  [][(prog = "msg" /\ pc = "read" /\ pc' = "emit"
        /\ filePositions'[Head(todo).file] # filePositions[Head(todo).file])
       => Pending(Head(todo).file) = <<>>]_vars

\* C12: a failed read mutates no state: the log-file watcher leaves the cursor
\* of a file whose read ended in an error where it was, and the key-value
\* watcher does not mark a bubble seen whose lookup threw while its row holds
\* a non-blank text.
StateKeptOnFailedRead ==
  [][/\ (prog = "msg" /\ pc = "read" /\ pc' = "emit" /\ ~eof)
          => filePositions' = filePositions
     /\ (prog = "cursor" /\ lockFail')
          => \A b \in seenBubbles' \ seenBubbles :
               ~(bubbles[b].k = "text" /\ trim(bubbles[b].text) # <<>>)]_vars

\* C13: when the read of a file fails after some but not all of its new lines
\* were parsed, no message of that read is emitted and the cursor stays.
FailedReadIsEmpty ==
  [][(prog = "msg" /\ pc = "read" /\ pc' = "emit" /\ ~eof
        /\ readEnd > filePositions[Head(todo).file])
       => /\ Pending(Head(todo).file) = <<>>
          /\ filePositions' = filePositions]_vars

\* C14: a malformed record never aborts the tick: when a tick ends, no
\* well-formed record of the tick is left without having been processed.
TickRunsToEnd ==
  [][(pc = "scan" /\ pc' = "sleep")
       => \A i \in 1..Len(todo) : prog = "cursor" /\ todo[i].header.nul]_vars

\* C15: while the key-value watcher is in its inter-tick sleep, no database
\* connection opened by an earlier tick is still open.
NoHandleAcrossSleep == (prog = "cursor" /\ pc = "sleep") => ~dbOpen

NeverEmitted(seq, b) == \A i \in 1..Len(seq) : seq[i].id # b

\* C16: a step that meets a header with an unseen bubble id records the id as
\* seen; it emits nothing when the body has no row, does not parse or is blank;
\* and a bubble that is seen and was not emitted is never emitted afterwards.
ConsumedOnce ==
  [][prog = "cursor" =>
       /\ (pc = "scan" /\ pc' = "scan" /\ todo # <<>> /\ todo' = Tail(todo))
            => /\ Head(todo).header.bubbleId \in seenBubbles'
               /\ ~(bubbles[Head(todo).header.bubbleId].k = "text"
                    /\ trim(bubbles[Head(todo).header.bubbleId].text) # <<>>)
                    => out' = out
       /\ \A b \in seenBubbles : NeverEmitted(out, b) => NeverEmitted(out', b)]_vars

\* C16 witness: the only header of the store was consumed on an earlier tick
\* without emission, the body of its bubble is stored now with a non-blank
\* text, and a later tick has passed that header again and emitted nothing.
LateBodyNotEmitted ==
  /\ prog = "cursor" /\ pc = "scan" /\ todo = <<>> /\ lastCheck = 1 /\ nheaders = 1
  /\ found = {} /\ DOMAIN base # {}
  /\ out = <<>> /\ ~lockFail
  /\ \E b \in seenBubbles : bubbles[b].k = "text" /\ trim(bubbles[b].text) # <<>>

\* C17: a record with k text items that pass the filter hands k messages to the
\* emitter: when the batch is the multi record (two such items) and its id is
\* new for the file, the emitter receives two messages.
MultiPartsAllEmitted ==
  [][(prog = "msg" /\ pc = "emit" /\ pc' = "scan"
        /\ buf = LineMessages(Bytes("multi"))
        /\ Pending(Head(todo).file) # <<>>)
       => Len(out') = Len(out) + Len(buf)]_vars

\* the items of rec the claim names as candidates: text items of a user or
\* assistant record without agentId whose trimmed text is non-empty and, for a
\* user record, starts with no sentinel
Claimed(i) ==
  /\ ~rec.agentId /\ rec.type \in {"user", "assistant"}
  /\ rec.content[i].obj /\ rec.content[i].type = "text" /\ rec.content[i].tk = "str"
  /\ trim(rec.content[i].text) # <<>>
  /\ rec.type = "user" =>
       /\ ~startsWith(trim(rec.content[i].text), SentinelTag)
       /\ ~startsWith(trim(rec.content[i].text), SentinelNote)

\* item j is malformed: it is null, or it is a text item whose text is
\* present, not null and not a string
MalformedItem(j) ==
  \/ ~rec.content[j].obj
  \/ /\ rec.content[j].type = "text"
     /\ rec.content[j].tk \notin {"str", "undef", "null"}

\* no item up to item i is malformed
WellFormedUpTo(i) == \A j \in 1..i : ~MalformedItem(j)

\* cands holds exactly the items in K, in item order, trimmed, with the role of
\* the record
CandidatesAre(K) ==
  /\ Len(cands) = Cardinality(K)
  /\ \A i \in K :
       LET n == Cardinality({j \in K : j <= i}) IN
       /\ cands[n].type = rec.type
       /\ cands[n].text = trim(rec.content[i].text)
       /\ cands[n].id = rec.uuid

\* C18 (as claimed): the candidates of a record are exactly its claimed items.
NormaliserAsClaimed ==
  pc = "done" => CandidatesAre({i \in 1..Len(rec.content) : Claimed(i)})

\* C18 (amended): the candidates of a record are exactly its claimed items
\* that no malformed item precedes, a malformed item being a null item or a
\* text item whose text is present, not null and not a string; a text item
\* without text or with a null text counts as empty and ends nothing.
NormaliserUpToMalformed ==
  pc = "done" =>
    CandidatesAre({i \in 1..Len(rec.content) : Claimed(i) /\ WellFormedUpTo(i)})

\* C18 witness: a user record whose first item has a null text and whose
\* second item is " hi " was normalised to the one message "hi": the null
\* text did not end the record.
NullTextItemPassed ==
  /\ pc = "done" /\ rec.type = "user" /\ ~rec.agentId
  /\ rec.content = <<NullTextItem, TextItem(<<32, 104, 105, 32>>)>>
  /\ Len(cands) = 1 /\ cands[1].text = <<104, 105>>

\* the bubble ids in the headers of the conversations the filter keeps
IdsOf(c) ==
  {headers[c][i].bubbleId : i \in {j \in 1..Len(headers[c]) : ~headers[c][j].nul}}
IncludedIds ==
  UNION {IdsOf(c) :
           c \in {x \in Convs :
                    \/ projectFilter = <<>>
                    \/ includes(toLowerCase(ConvName(x)), toLowerCase(projectFilter))}}

\* C19: the key-value watcher keeps one seen-set for the run: it only grows,
\* no bubble id is emitted twice in total, whatever conversations list it, and
\* it holds only ids listed by conversations the project filter keeps.
OneSeenSet ==
  [][(prog = "cursor" /\ pc' # "stopped") =>
       /\ seenBubbles \subseteq seenBubbles'
       /\ \A i, j \in 1..Len(out') : i < j => out'[i].id # out'[j].id
       /\ \A i \in 1..Len(out') : out'[i].id \in seenBubbles'
       /\ seenBubbles' \subseteq IncludedIds']_vars

\* C19 witness: both conversations list bubble b1, a tick has gone through
\* both of them and has emitted b1 once.
SharedBubbleEmittedOnce ==
  /\ prog = "cursor" /\ pc = "scan" /\ todo = <<>> /\ projectFilter = <<>>
  /\ lastCheck = 2
  /\ \A c \in Convs : "b1" \in IdsOf(c)
  /\ Len(tickOut) = 1 /\ tickOut[1].id = "b1"

\* C20: the waiting notice is printed at most once in a run, and never after
\* a message was emitted.
NoticeAtMostOnce ==
  [][/\ notices' \in {0, 1}
     /\ out # <<>> => notices' = notices]_vars

====
